---- MODULE Spec2Model ----
(***************************************************************************)
(* A model of the ssengine calculation core: the workbook of sheets of     *)
(* cells, the dependency graph with its two inverse maps, the write path   *)
(* Workbook::set_cell_value and the recalculation driver.                  *)
(*                                                                         *)
(* Sources: core/src/model.rs, core/src/evaluator.rs, core/src/parser.rs.  *)
(* The type crate::parser::Parser (new, parse, extract_cell_references)    *)
(* that model.rs calls is not part of the sources, and parser.rs holds     *)
(* only a placeholder for the grammar; the parser is therefore modelled    *)
(* from section 4.1 of the specification (ParserParse and                  *)
(* ExtractCellReferences below).                                           *)
(***************************************************************************)
EXTENDS Integers, Sequences, FiniteSets, TLC

(***************************************************************************)
(* Bounds of the model.                                                    *)
(***************************************************************************)
\* rows 0..MaxRow of column A are written
MaxRow == 2
\* literal numbers 1..MaxNum are written
MaxNum == 1
\* a call is taken while the computed numbers stay within MaxValue
MaxValue == 2

Rows == 0..MaxRow
\* a CellAddress is <<row, col>> (model.rs:17-20)
Addrs == {<<r, 0>> : r \in Rows}
\* names given to add_sheet
SheetNames == {"S"}
\* a sheet name that is never added: writes to it and references into it
\* meet the "does not exist" paths of the code
UnknownSheet == "X"
AllSheetNames == SheetNames \cup {UnknownSheet}
\* a qualified address (String, CellAddress), the key of both graph maps
Key(sheet, addr) == <<sheet, addr>>

(***************************************************************************)
(* CellValue (model.rs:78-85) and Option<CellValue>.  Every value is a     *)
(* record of the same shape: the tag, the number and the string.           *)
(***************************************************************************)
Blank == [t |-> "Blank", n |-> 0, s |-> ""]
Number(x) == [t |-> "Number", n |-> x, s |-> ""]
Text(str) == [t |-> "Text", n |-> 0, s |-> str]
Boolean(b) == [t |-> "Boolean", n |-> IF b THEN 1 ELSE 0, s |-> ""]
\* CellError (error.rs:28-47) by its display form
Error(e) == [t |-> "Error", n |-> 0, s |-> e]
Formula(f) == [t |-> "Formula", n |-> 0, s |-> f]
None == [t |-> "None", n |-> 0, s |-> ""]

\* impl From<&str> for CellValue (model.rs:93-102), the conversion that
\* set_cell_value applies to a string argument
CellValueFromStr(value) ==
    IF value # "" /\ Head(value) = "=" THEN Formula(value) ELSE Text(value)

\* Cell::new (model.rs:130-141)
CellNew(value) ==
    [value |-> value,
     formula |-> IF value.t = "Formula" THEN value ELSE None,
     calculated_value |-> None]

\* Cell::effective_value (model.rs:143-148)
EffectiveValue(cell) ==
    IF cell.calculated_value # None THEN cell.calculated_value ELSE cell.value

(***************************************************************************)
(* A1 notation (model.rs:62-73).                                           *)
(***************************************************************************)
Letters == <<"A", "B", "C", "D", "E", "F", "G", "H", "I", "J", "K", "L", "M",
             "N", "O", "P", "Q", "R", "S", "T", "U", "V", "W", "X", "Y", "Z">>

RECURSIVE ColLetters(_)
\* the loop of to_a1, the letters already in reading order
ColLetters(col_num) ==
    IF col_num > 0
    THEN LET remainder == (col_num - 1) % 26
         IN ColLetters((col_num - remainder) \div 26) \o Letters[remainder + 1]
    ELSE ""

\* a to_a1 that writes the 0-based row
ToA1ZeroBased(addr) == ColLetters(addr[2] + 1) \o ToString(addr[1])

\* CellAddress::to_a1 (model.rs:62-73)
ToA1(addr) == ColLetters(addr[2] + 1) \o ToString(addr[1] + 1)

LowerLetters == <<"a", "b", "c", "d", "e", "f", "g", "h", "i", "j", "k", "l", "m",
                  "n", "o", "p", "q", "r", "s", "t", "u", "v", "w", "x", "y", "z">>
Digits == <<"0", "1", "2", "3", "4", "5", "6", "7", "8", "9">>

\* the position of element x in the sequence seq
IndexOf(seq, x) == CHOOSE i \in 1..Len(seq) : seq[i] = x
\* membership of x in the sequence seq
IsIn(seq, x) == \E i \in 1..Len(seq) : seq[i] = x

\* char::is_alphabetic and char::is_numeric on the characters that are written
IsAlphabetic(c) == IsIn(Letters, c) \/ IsIn(LowerLetters, c)
IsNumeric(c) == IsIn(Digits, c)
\* char::to_ascii_uppercase
ToAsciiUppercase(c) == IF IsIn(LowerLetters, c) THEN Letters[IndexOf(LowerLetters, c)] ELSE c

RECURSIVE FromA1Scan(_, _, _)
\* the loop of from_a1 over the characters (model.rs:33-41)
FromA1Scan(reference, col_str, row_str) ==
    IF reference = "" THEN [ok |-> TRUE, col_str |-> col_str, row_str |-> row_str]
    ELSE LET c == Head(reference)
         IN IF IsAlphabetic(c)
            THEN FromA1Scan(Tail(reference), col_str \o ToAsciiUppercase(c), row_str)
            ELSE IF IsNumeric(c) THEN FromA1Scan(Tail(reference), col_str, row_str \o c)
            ELSE [ok |-> FALSE, col_str |-> col_str, row_str |-> row_str]

RECURSIVE ColFold(_, _)
\* the fold of model.rs:48-50 over the column letters
ColFold(col_str, acc) ==
    IF col_str = "" THEN acc
    ELSE ColFold(Tail(col_str), acc * 26 + IndexOf(Letters, Head(col_str)))

RECURSIVE ParseU32(_, _)
\* str::parse::<u32> of a non-empty string of digits (model.rs:53); the
\* strings read have at most nine digits, so the number fits
ParseU32(row_str, acc) ==
    IF row_str = "" THEN acc
    ELSE ParseU32(Tail(row_str), acc * 10 + IndexOf(Digits, Head(row_str)) - 1)

\* CellAddress::from_a1 (model.rs:28-59), for references whose row is not 0
\* and whose column and row fit in a u32
FromA1(reference) ==
    LET scan == FromA1Scan(reference, "", "")
        col == ColFold(scan.col_str, 0) - 1
        r == ParseU32(scan.row_str, 0)
        failure == [ok |-> FALSE, addr |-> <<0, 0>>, err |-> "ParseError"]
    IN IF ~scan.ok THEN failure
       ELSE IF scan.col_str = "" \/ scan.row_str = "" THEN failure
       ELSE [ok |-> TRUE, addr |-> <<r - 1, col>>, err |-> ""]

(***************************************************************************)
(* Expression trees (ast.rs:6-31).                                         *)
(***************************************************************************)
RefCell(addr) == [node |-> "Reference", kind |-> "Cell", sheet |-> "", address |-> addr]
\* Reference::Range { start, end } (ast.rs:35)
RefRange(start, end) ==
    [node |-> "Reference", kind |-> "Range", sheet |-> "", start |-> start, end |-> end]
\* AstNode::Literal (ast.rs:8), holding the value of the literal
Literal(v) == [node |-> "Literal", value |-> v]
\* AstNode::FunctionCall { name, args } (ast.rs:19-22)
FunctionCall(name, args) == [node |-> "FunctionCall", name |-> name, args |-> args]
RefSheetCell(sheet, addr) ==
    [node |-> "Reference", kind |-> "SheetCell", sheet |-> sheet, address |-> addr]
BinaryOp(op, l, r) == [node |-> "BinaryOp", op |-> op, left |-> l, right |-> r]

\* the trees of the formulas that are written: a lone reference to each cell,
\* the sum of the first two cells, and a sum that reads the first cell and a
\* cell of the sheet that does not exist
RefAsts == {RefCell(a) : a \in Addrs}
AddAsts == {BinaryOp("Add", RefCell(<<0, 0>>), RefCell(<<1, 0>>))}
SheetAsts == {BinaryOp("Add", RefCell(<<0, 0>>), RefSheetCell(UnknownSheet, <<0, 0>>))}
Asts == RefAsts \cup AddAsts \cup SheetAsts

\* the trees of the function formulas: the sum over the first two cells and
\* the guard of the first cell with the literal 1
SumAst == FunctionCall("SUM", <<RefRange(<<0, 0>>, <<1, 0>>)>>)
IfErrorAst == FunctionCall("IFERROR", <<RefCell(<<0, 0>>), Literal(Number(1))>>)
FunctionAsts == {SumAst, IfErrorAst}
\* every tree the parser yields
ParsedAsts == Asts \cup FunctionAsts

RECURSIVE AstText(_)
RECURSIVE ArgsText(_)
\* the source text of a tree, without the leading '='
AstText(ast) ==
    IF ast.node = "Reference"
    THEN IF ast.kind = "Cell" THEN ToA1(ast.address)
         ELSE IF ast.kind = "Range" THEN ToA1(ast.start) \o ":" \o ToA1(ast.end)
         ELSE ast.sheet \o "!" \o ToA1(ast.address)
    ELSE IF ast.node = "Literal" THEN Digits[ast.value.n + 1]
    ELSE IF ast.node = "FunctionCall" THEN ast.name \o "(" \o ArgsText(ast.args) \o ")"
    ELSE AstText(ast.left) \o "+" \o AstText(ast.right)

\* the argument list of a function call, separated by commas
ArgsText(args) ==
    IF Len(args) = 1 THEN AstText(Head(args))
    ELSE AstText(Head(args)) \o "," \o ArgsText(Tail(args))

FormulaText(ast) == "=" \o AstText(ast)
\* a formula text that does not parse
BadFormulaText == "=A1+"
FormulaTexts == {FormulaText(ast) : ast \in Asts} \cup {BadFormulaText}

\* Parser::parse (called at model.rs:525): the tree of the text, or the
\* parse failure
ParserParse(text) ==
    IF \E ast \in ParsedAsts : FormulaText(ast) = text
    THEN [ok |-> TRUE, ast |-> CHOOSE ast \in ParsedAsts : FormulaText(ast) = text]
    ELSE [ok |-> FALSE, ast |-> RefCell(<<0, 0>>)]

\* the member addresses of the rectangle of a range
RangeMembers(start, end) ==
    {<<r, c>> : r \in start[1]..end[1], c \in start[2]..end[2]}

RECURSIVE ExtractCellReferences(_)
\* Parser::extract_cell_references (called at model.rs:528): the set of
\* CellReference {sheet: Option<String>, address} of the tree; sheet "" is
\* None; a range yields its member addresses
ExtractCellReferences(ast) ==
    IF ast.node = "Reference"
    THEN IF ast.kind = "Range"
         THEN {[sheet |-> ast.sheet, address |-> a] : a \in RangeMembers(ast.start, ast.end)}
         ELSE {[sheet |-> ast.sheet, address |-> ast.address]}
    ELSE IF ast.node = "Literal" THEN {}
    ELSE IF ast.node = "FunctionCall"
    THEN UNION {ExtractCellReferences(ast.args[i]) : i \in DOMAIN ast.args}
    ELSE ExtractCellReferences(ast.left) \cup ExtractCellReferences(ast.right)

(***************************************************************************)
(* The dependency graph (model.rs:305-432).  Both maps are functions from  *)
(* the keys present in the HashMap to the HashSet stored there.            *)
(***************************************************************************)
EmptyMap == [k \in {} |-> {}]

\* entry(k).or_insert_with(HashSet::new).insert(x)
MapInsert(m, k, x) ==
    IF k \in DOMAIN m
    THEN [m EXCEPT ![k] = @ \cup {x}]
    ELSE [j \in DOMAIN m \cup {k} |-> IF j = k THEN {x} ELSE m[j]]

\* get(k), the empty set for an absent key
MapGet(m, k) == IF k \in DOMAIN m THEN m[k] ELSE {}

\* DependencyGraph::new (model.rs:314-319)
DependencyGraphNew == [dependents |-> EmptyMap, precedents |-> EmptyMap]

\* add_dependency that records the edge in the precedents map alone
AddDependencyOneWay(g, cell_key, dep_key) ==
    [dependents |-> g.dependents,
     precedents |-> MapInsert(g.precedents, cell_key, dep_key)]

\* DependencyGraph::add_dependency (model.rs:322-335)
AddDependency(g, cell_key, dep_key) ==
    [dependents |-> MapInsert(g.dependents, dep_key, cell_key),
     precedents |-> MapInsert(g.precedents, cell_key, dep_key)]

RECURSIVE AddDependencies(_, _, _)
\* the loop of model.rs:529-532 over the extracted references
AddDependencies(g, cell_key, dep_keys) ==
    IF dep_keys = {} THEN g
    ELSE LET d == CHOOSE x \in dep_keys : TRUE
         IN AddDependencies(AddDependency(g, cell_key, d), cell_key, dep_keys \ {d})

\* a variant of remove_dependencies that drops the edges of every cell
RemoveDependenciesAll(g, cell_key) == DependencyGraphNew

\* DependencyGraph::remove_dependencies (model.rs:372-389)
RemoveDependencies(g, cell_key) ==
    LET precs == MapGet(g.precedents, cell_key)
        deps == g.dependents
        emptied == {k \in DOMAIN deps : k \in precs /\ deps[k] \ {cell_key} = {}}
    IN [precedents |-> [k \in DOMAIN g.precedents \ {cell_key} |-> g.precedents[k]],
        dependents |-> [k \in DOMAIN deps \ emptied |->
                           IF k \in precs THEN deps[k] \ {cell_key} ELSE deps[k]]]

RECURSIVE GetDependentsLoop(_, _, _)
\* the queue loop of get_dependents: result holds every key ever queued
GetDependentsLoop(g, queue, result) ==
    IF queue = {} THEN result
    ELSE LET current == CHOOSE x \in queue : TRUE
             fresh == MapGet(g.dependents, current) \ result
         IN GetDependentsLoop(g, (queue \ {current}) \cup fresh, result \cup fresh)

\* DependencyGraph::get_dependents (model.rs:338-364)
GetDependents(g, key) ==
    LET direct == MapGet(g.dependents, key)
    IN GetDependentsLoop(g, direct, direct)

RECURSIVE DfsCheckCircular(_, _, _, _)
RECURSIVE DfsPrecedents(_, _, _, _)
\* DependencyGraph::dfs_check_circular (model.rs:400-431); the visited set is
\* returned with the answer, the path set is passed down
DfsCheckCircular(g, cell, visited, path) ==
    IF cell \in path THEN [found |-> TRUE, visited |-> visited]
    ELSE IF cell \in visited THEN [found |-> FALSE, visited |-> visited]
    ELSE DfsPrecedents(g, MapGet(g.precedents, cell), visited \cup {cell}, path \cup {cell})

\* a loop over the precedents that looks for a precedent on the path and
\* does not descend
DfsPrecedentsShallow(g, todo, visited, path) ==
    [found |-> todo \cap path # {}, visited |-> visited]

\* the loop over the precedents of one cell (model.rs:419-425)
DfsPrecedents(g, todo, visited, path) ==
    IF todo = {} THEN [found |-> FALSE, visited |-> visited]
    ELSE LET precedent == CHOOSE x \in todo : TRUE
             r == DfsCheckCircular(g, precedent, visited, path)
         IN IF r.found THEN r
            ELSE DfsPrecedents(g, todo \ {precedent}, r.visited, path)

\* a cycle check that never finds a cycle
CheckCircularReferenceNever(g, key) == FALSE

\* DependencyGraph::check_circular_reference (model.rs:392-397)
CheckCircularReference(g, key) == DfsCheckCircular(g, key, {}, {}).found

(***************************************************************************)
(* The workbook as a value: the fields of struct Workbook (model.rs:435-   *)
(* 442) that change.  sheets maps the names of the sheets to the sparse    *)
(* map of each sheet, from the addresses that hold a cell to the Cell.     *)
(***************************************************************************)
NoCells == [a \in {} |-> CellNew(Blank)]

\* Workbook::new (model.rs:445-454)
WorkbookNew ==
    [sheets |-> [n \in {} |-> NoCells],
     active_sheet |-> "",
     dependency_graph |-> DependencyGraphNew,
     dirty_cells |-> {}]

\* Workbook::get_cell_value (model.rs:603-619)
GetCellValue(wb, sheet_name, addr) ==
    IF sheet_name \notin DOMAIN wb.sheets THEN [ok |-> FALSE, v |-> Blank, err |-> "Internal"]
    ELSE IF addr \notin DOMAIN wb.sheets[sheet_name] THEN [ok |-> TRUE, v |-> Blank, err |-> ""]
    ELSE LET cell == wb.sheets[sheet_name][addr]
         IN [ok |-> TRUE,
             v |-> IF cell.calculated_value # None THEN cell.calculated_value ELSE cell.value,
             err |-> ""]

(***************************************************************************)
(* The evaluator (evaluator.rs).                                           *)
(***************************************************************************)
\* Result<CellValue, EngineError>
Ok(v) == [ok |-> TRUE, v |-> v, err |-> ""]
Err(e) == [ok |-> FALSE, v |-> Blank, err |-> e]

\* the arm (CellValue::Error(e), _) | (_, CellValue::Error(e)) that the
\* arithmetic operators share: the alternatives are tried left to right
ErrorArm(left, right) == IF left.t = "Error" THEN left ELSE right

\* Evaluator::add (evaluator.rs:140-148), the arms in the order of the match
EvalAdd(left, right) ==
    IF left.t = "Number" /\ right.t = "Number" THEN Number(left.n + right.n)
    ELSE IF left.t = "Blank" /\ right.t = "Number" THEN Number(right.n)
    ELSE IF left.t = "Number" /\ right.t = "Blank" THEN Number(left.n)
    ELSE IF left.t = "Error" THEN left
    ELSE IF right.t = "Error" THEN right
    ELSE Error("#VALUE!")

\* Evaluator::subtract (evaluator.rs:150-158)
EvalSubtract(left, right) ==
    IF left.t = "Number" /\ right.t = "Number" THEN Number(left.n - right.n)
    ELSE IF left.t = "Blank" /\ right.t = "Number" THEN Number(0 - right.n)
    ELSE IF left.t = "Number" /\ right.t = "Blank" THEN Number(left.n)
    ELSE IF left.t = "Error" \/ right.t = "Error" THEN ErrorArm(left, right)
    ELSE Error("#VALUE!")

\* Evaluator::multiply (evaluator.rs:160-167)
EvalMultiply(left, right) ==
    IF left.t = "Number" /\ right.t = "Number" THEN Number(left.n * right.n)
    ELSE IF left.t = "Blank" \/ right.t = "Blank" THEN Number(0)
    ELSE IF left.t = "Error" \/ right.t = "Error" THEN ErrorArm(left, right)
    ELSE Error("#VALUE!")

\* Evaluator::divide (evaluator.rs:169-177); the numbers divided are whole
\* and the divisor divides the dividend
EvalDivide(left, right) ==
    IF left.t = "Number" /\ right.t = "Number"
    THEN IF right.n = 0 THEN Error("#DIV/0!") ELSE Number(left.n \div right.n)
    ELSE IF left.t = "Error" \/ right.t = "Error" THEN ErrorArm(left, right)
    ELSE Error("#VALUE!")

\* f64::powf on whole numbers with an exponent that is not negative
Powf(a, b) == IF b = 0 THEN 1 ELSE a ^ b

\* Evaluator::power (evaluator.rs:179-192); a whole base to a whole exponent
\* that is not negative is neither NaN nor infinite
EvalPower(left, right) ==
    IF left.t = "Number" /\ right.t = "Number" THEN Number(Powf(left.n, right.n))
    ELSE IF left.t = "Error" \/ right.t = "Error" THEN ErrorArm(left, right)
    ELSE Error("#VALUE!")

\* CellValue::as_error, called at evaluator.rs:223 and 241 and defined
\* nowhere in the sources: the error an error value holds; for a value that
\* is no error, the kind section 4.2 gives to an operand of the wrong type
AsError(v) == IF v.t = "Error" THEN Error(v.s) ELSE Error("#VALUE!")

\* Evaluator::equal (evaluator.rs:212-227)
EvalEqual(left, right) ==
    IF left.t = "Number" /\ right.t = "Number" THEN Ok(Boolean(left.n = right.n))
    ELSE IF left.t = "Text" /\ right.t = "Text" THEN Ok(Boolean(left.s = right.s))
    ELSE IF left.t = "Boolean" /\ right.t = "Boolean" THEN Ok(Boolean(left.n = right.n))
    ELSE IF left.t = "Blank" /\ right.t = "Blank" THEN Ok(Boolean(TRUE))
    ELSE IF left.t = "Blank" /\ right.t = "Number" THEN Ok(Boolean(right.n = 0))
    ELSE IF left.t = "Number" /\ right.t = "Blank" THEN Ok(Boolean(left.n = 0))
    ELSE IF left.t = "Blank" /\ right.t = "Text" THEN Ok(Boolean(right.s = ""))
    ELSE IF left.t = "Text" /\ right.t = "Blank" THEN Ok(Boolean(left.s = ""))
    ELSE IF left.t = "Error" \/ right.t = "Error" THEN Ok(AsError(left))
    ELSE Ok(Boolean(FALSE))

\* Evaluator::not_equal (evaluator.rs:229-232)
EvalNotEqual(l, r) ==
    LET e == EvalEqual(l, r)
    IN IF e.v.t = "Boolean" THEN Ok(Boolean(e.v.n = 0)) ELSE Err("EvaluationError")

\* char::to_lowercase on the characters that are written
ToLowercase(c) == IF IsIn(Letters, c) THEN LowerLetters[IndexOf(Letters, c)] ELSE c

\* the code point of a digit or of a letter
CharCode(c) ==
    IF IsIn(Digits, c) THEN 47 + IndexOf(Digits, c)
    ELSE IF IsIn(Letters, c) THEN 64 + IndexOf(Letters, c)
    ELSE 96 + IndexOf(LowerLetters, c)

RECURSIVE StrLowerLess(_, _)
\* a.to_lowercase() < b.to_lowercase() (evaluator.rs:238), the order of
\* strings by their characters
StrLowerLess(a, b) ==
    IF b = "" THEN FALSE
    ELSE IF a = "" THEN TRUE
    ELSE LET x == CharCode(ToLowercase(Head(a)))
             y == CharCode(ToLowercase(Head(b)))
         IN IF x # y THEN x < y ELSE StrLowerLess(Tail(a), Tail(b))

\* Evaluator::less_than (evaluator.rs:234-245)
EvalLessThan(left, right) ==
    IF left.t = "Number" /\ right.t = "Number" THEN Ok(Boolean(left.n < right.n))
    ELSE IF left.t = "Text" /\ right.t = "Text" THEN Ok(Boolean(StrLowerLess(left.s, right.s)))
    ELSE IF left.t = "Blank" /\ right.t = "Number" THEN Ok(Boolean(0 < right.n))
    ELSE IF left.t = "Number" /\ right.t = "Blank" THEN Ok(Boolean(left.n < 0))
    ELSE IF left.t = "Error" \/ right.t = "Error" THEN Ok(AsError(left))
    ELSE Ok(Error("#VALUE!"))

\* Evaluator::greater_than (evaluator.rs:247-249)
EvalGreaterThan(l, r) == EvalLessThan(r, l)

\* Evaluator::less_than_or_equal (evaluator.rs:251-254)
EvalLessThanOrEqual(l, r) ==
    LET lt == EvalLessThan(l, r)
    IN IF lt.v.t # "Boolean" THEN Err("EvaluationError")
       ELSE Ok(Boolean(lt.v.n = 1 \/ EvalEqual(l, r).v = Boolean(TRUE)))

\* Evaluator::greater_than_or_equal (evaluator.rs:256-258)
EvalGreaterThanOrEqual(l, r) == EvalLessThanOrEqual(r, l)

\* the closure to_str of concatenate (evaluator.rs:261-268); f64::to_string
\* of a whole number has no fraction digits
ToStr(v) ==
    IF v.t = "Text" THEN [ok |-> TRUE, s |-> v.s]
    ELSE IF v.t = "Number" THEN [ok |-> TRUE, s |-> ToString(v.n)]
    ELSE IF v.t = "Boolean" THEN [ok |-> TRUE, s |-> IF v.n = 1 THEN "true" ELSE "false"]
    ELSE IF v.t = "Blank" THEN [ok |-> TRUE, s |-> ""]
    ELSE IF v.t = "Error" THEN [ok |-> FALSE, s |-> v.s]
    ELSE [ok |-> FALSE, s |-> "#VALUE!"]

\* Evaluator::concatenate (evaluator.rs:260-270): the ? operators leave the
\* function with Err as soon as an operand has no string
EvalConcatenate(left, right) ==
    IF ~ToStr(left).ok THEN Err(ToStr(left).s)
    ELSE IF ~ToStr(right).ok THEN Err(ToStr(right).s)
    ELSE Ok(Text(ToStr(left).s \o ToStr(right).s))

\* BinaryOperator (ast.rs)
BinaryOperators ==
    {"Add", "Subtract", "Multiply", "Divide", "Power", "Equal", "NotEqual", "LessThan",
     "LessThanOrEqual", "GreaterThan", "GreaterThanOrEqual", "Concat"}
ArithmeticOperators == {"Add", "Subtract", "Multiply", "Divide", "Power"}

\* the match of evaluate_binary_op on the operator (evaluator.rs:108-121)
ApplyBinaryOp(op, lv, rv) ==
    CASE op = "Add" -> Ok(EvalAdd(lv, rv))
      [] op = "Subtract" -> Ok(EvalSubtract(lv, rv))
      [] op = "Multiply" -> Ok(EvalMultiply(lv, rv))
      [] op = "Divide" -> Ok(EvalDivide(lv, rv))
      [] op = "Power" -> Ok(EvalPower(lv, rv))
      [] op = "Equal" -> EvalEqual(lv, rv)
      [] op = "NotEqual" -> EvalNotEqual(lv, rv)
      [] op = "LessThan" -> EvalLessThan(lv, rv)
      [] op = "LessThanOrEqual" -> EvalLessThanOrEqual(lv, rv)
      [] op = "GreaterThan" -> EvalGreaterThan(lv, rv)
      [] op = "GreaterThanOrEqual" -> EvalGreaterThanOrEqual(lv, rv)
      [] op = "Concat" -> EvalConcatenate(lv, rv)

\* EvaluationContext::resolve_reference and resolve_cell_value
\* (evaluator.rs:45-62): the stack of evaluating cells is empty whenever
\* is_circular reads it, since each push is popped before the next push
ResolveReference(wb, current_sheet, r) ==
    IF r.kind = "Cell" THEN GetCellValue(wb, current_sheet, r.address)
    ELSE IF r.kind = "Range" THEN GetCellValue(wb, current_sheet, r.start)
    ELSE GetCellValue(wb, r.sheet, r.address)

RECURSIVE SumLoop(_, _)
\* the loop of sum over its arguments (functions.rs:442-452)
SumLoop(args, total) ==
    IF args = <<>> THEN Ok(Number(total))
    ELSE LET arg == Head(args)
         IN CASE arg.t = "Number" -> SumLoop(Tail(args), total + arg.n)
              [] arg.t = "Text" -> Err("EvaluationError")
              [] arg.t = "Boolean" -> SumLoop(Tail(args), total + arg.n)
              [] arg.t = "Blank" -> SumLoop(Tail(args), total)
              [] arg.t = "Formula" -> Err("EvaluationError")
              [] arg.t = "Error" -> Err("CellValueError")

\* sum (functions.rs:439-455)
Sum(args) == SumLoop(args, 0)

\* a variant of iferror that returns its first argument always
IfErrorFirst(args) ==
    IF Len(args) # 2 THEN Err("EvaluationError") ELSE Ok(args[1])

\* iferror (functions.rs:2632-2643)
IfError(args) ==
    IF Len(args) # 2 THEN Err("EvaluationError")
    ELSE IF args[1].t = "Error" THEN Ok(args[2])
    ELSE Ok(args[1])

RECURSIVE AllBinary(_)
\* binary.chars().all(|c| c == '0' || c == '1') (functions.rs:1806)
AllBinary(binary) ==
    binary = "" \/ (Head(binary) \in {"0", "1"} /\ AllBinary(Tail(binary)))

RECURSIVE BinFold(_, _)
\* the loop of bin2dec over the digits (functions.rs:1816-1819)
BinFold(binary, decimal) ==
    IF binary = "" THEN decimal
    ELSE BinFold(Tail(binary), decimal * 2 + (IF Head(binary) = "1" THEN 1 ELSE 0))

\* a variant of bin2dec that reads every string as an unsigned number
Bin2DecUnsigned(args) ==
    IF Len(args) # 1 THEN Err("EvaluationError")
    ELSE IF args[1].t \notin {"Text", "Number"} THEN Err("EvaluationError")
    ELSE LET binary == IF args[1].t = "Text" THEN args[1].s ELSE ToString(args[1].n)
         IN IF ~AllBinary(binary) THEN Err("EvaluationError")
            ELSE IF Len(binary) > 10 THEN Err("EvaluationError")
            ELSE Ok(Number(BinFold(binary, 0)))

\* bin2dec (functions.rs:1794-1828); f64::to_string of a whole number is its
\* decimal digits
Bin2Dec(args) ==
    IF Len(args) # 1 THEN Err("EvaluationError")
    ELSE IF args[1].t \notin {"Text", "Number"} THEN Err("EvaluationError")
    ELSE LET binary == IF args[1].t = "Text" THEN args[1].s ELSE ToString(args[1].n)
             decimal == BinFold(binary, 0)
         IN IF ~AllBinary(binary) THEN Err("EvaluationError")
            ELSE IF Len(binary) > 10 THEN Err("EvaluationError")
            ELSE IF Len(binary) = 10 /\ Head(binary) = "1" THEN Ok(Number(decimal - 1024))
            ELSE Ok(Number(decimal))

RECURSIVE Dec2BinLoop(_, _)
\* the loop of dec2bin that writes the digits from right to left
\* (functions.rs:1864-1867)
Dec2BinLoop(value, binary) ==
    IF value > 0 \/ binary = ""
    THEN Dec2BinLoop(value \div 2, (IF value % 2 = 1 THEN "1" ELSE "0") \o binary)
    ELSE binary

RECURSIVE PadZeros(_, _)
\* format!("{:0>width$}", binary, width = places) (functions.rs:1870-1872)
PadZeros(binary, places) ==
    IF Len(binary) < places THEN PadZeros("0" \o binary, places) ELSE binary

\* dec2bin (functions.rs:1831-1876), on whole numbers
Dec2Bin(args) ==
    IF Len(args) < 1 \/ Len(args) > 2 THEN Err("EvaluationError")
    ELSE IF args[1].t # "Number" THEN Err("EvaluationError")
    ELSE IF args[1].n < -512 \/ args[1].n > 511 THEN Err("EvaluationError")
    ELSE IF Len(args) = 2 /\ args[2].t # "Number" THEN Err("EvaluationError")
    ELSE LET number == args[1].n
             places == IF Len(args) = 2 THEN args[2].n ELSE 0
             value == IF number < 0 THEN number + 1024 ELSE number
         IN Ok(Text(PadZeros(Dec2BinLoop(value, ""), places)))

\* FunctionRegistry::call (called at evaluator.rs:136): the implementation
\* registered under the upper-cased name (functions.rs:34-36, 41, 97, 159-160) applied
\* to the values
FunctionRegistryCall(name, vals) ==
    CASE name = "SUM" -> Sum(vals)
      [] name = "IFERROR" -> IfError(vals)
      [] name = "BIN2DEC" -> Bin2Dec(vals)
      [] name = "DEC2BIN" -> Dec2Bin(vals)
      [] OTHER -> Err("UnknownFunction")

RECURSIVE Evaluate(_, _, _)
RECURSIVE EvaluateFunction(_, _, _, _, _)
\* Evaluator::evaluate_literal (evaluator.rs:97-104)
EvaluateLiteral(lit) == Ok(lit.value)

\* Evaluator::evaluate and evaluate_binary_op (evaluator.rs:86-122)
Evaluate(wb, current_sheet, node) ==
    IF node.node = "Reference" THEN ResolveReference(wb, current_sheet, node)
    ELSE IF node.node = "Literal" THEN EvaluateLiteral(node)
    ELSE IF node.node = "FunctionCall"
    THEN EvaluateFunction(wb, current_sheet, node.name, node.args, <<>>)
    ELSE LET lv == Evaluate(wb, current_sheet, node.left)
         IN IF ~lv.ok THEN lv
            ELSE LET rv == Evaluate(wb, current_sheet, node.right)
                 IN IF ~rv.ok THEN rv
                    ELSE ApplyBinaryOp(node.op, lv.v, rv.v)

\* Evaluator::evaluate_function (evaluator.rs:133-137): the arguments are
\* evaluated in order, the first engine error leaves; vals holds the values
\* pushed so far
EvaluateFunction(wb, current_sheet, name, args, vals) ==
    IF args = <<>> THEN FunctionRegistryCall(name, vals)
    ELSE LET a == Evaluate(wb, current_sheet, Head(args))
         IN IF ~a.ok THEN a
            ELSE EvaluateFunction(wb, current_sheet, name, Tail(args), Append(vals, a.v))

\* Evaluator::evaluate_formula as the driver calls it (model.rs:590,
\* evaluator.rs:79-83): parse the text, evaluate the tree in the context of
\* the cell's sheet
EvaluateFormula(wb, sheet, formula) ==
    LET parsed == ParserParse(formula)
    IN IF ~parsed.ok THEN [ok |-> FALSE, v |-> Blank, err |-> "ParseError"]
       ELSE Evaluate(wb, sheet, parsed.ast)

(***************************************************************************)
(* Workbook operations (model.rs:444-620).  Each operator maps a workbook  *)
(* to the outcome of the call: the Result it returns (result is "Ok" or    *)
(* the EngineError variant, stage is the place the call returned from) and *)
(* the workbook it leaves.                                                 *)
(***************************************************************************)
Outcome(result, stage, wb) == [result |-> result, stage |-> stage, wb |-> wb]

\* an add_sheet that does not look for the name among the sheets
AddSheetAgain(wb, name) ==
    Outcome("Ok", "done",
            [wb EXCEPT !.sheets = [n \in DOMAIN wb.sheets \cup {name} |->
                                      IF n = name THEN NoCells ELSE wb.sheets[n]],
                       !.active_sheet = IF @ = "" THEN name ELSE @])

\* Workbook::add_sheet (model.rs:457-471); Sheet::new (model.rs:164-169)
AddSheet(wb, name) ==
    IF name \in DOMAIN wb.sheets THEN Outcome("Internal", "sheet", wb)
    ELSE Outcome("Ok", "done",
                 [wb EXCEPT !.sheets = [n \in DOMAIN wb.sheets \cup {name} |->
                                           IF n = name THEN NoCells ELSE wb.sheets[n]],
                            !.active_sheet = IF @ = "" THEN name ELSE @])

\* Sheet::set_cell (model.rs:186-190)
SheetSetCell(cells, addr, value) ==
    [a \in DOMAIN cells \cup {addr} |-> IF a = addr THEN CellNew(value) ELSE cells[a]]

\* Sheet::delete_cell (model.rs:228-231)
SheetDeleteCell(cells, addr) == [a \in DOMAIN cells \ {addr} |-> cells[a]]

\* the delete the library offers: get_sheet_mut (model.rs:478-481) and then
\* Sheet::delete_cell; the result is the bool returned
DeleteCell(wb, sheet_name, addr) ==
    Outcome(IF addr \in DOMAIN wb.sheets[sheet_name] THEN "true" ELSE "false", "done",
            [wb EXCEPT !.sheets[sheet_name] = SheetDeleteCell(@, addr)])

\* a variant of mark_dirty that stops at the direct dependents
MarkDirtyDirect(wb, sheet_name, addr) ==
    [wb EXCEPT !.dirty_cells =
        @ \cup {Key(sheet_name, addr)}
          \cup MapGet(wb.dependency_graph.dependents, Key(sheet_name, addr))]

\* Workbook::mark_dirty (model.rs:555-563)
MarkDirty(wb, sheet_name, addr) ==
    [wb EXCEPT !.dirty_cells =
        @ \cup {Key(sheet_name, addr)}
          \cup GetDependents(wb.dependency_graph, Key(sheet_name, addr))]

\* the keys of the edges added at model.rs:529-532
ReferenceKeys(sheet_name, references) ==
    {Key(IF r.sheet = "" THEN sheet_name ELSE r.sheet, r.address) : r \in references}

\* a variant of set_cell_value that clears the edges of the cell at the same
\* row and column of the active sheet before it looks the sheet up
SetCellValueMarkUnchecked(wb, sheet_name, addr, value) ==
    LET cell_key == Key(sheet_name, addr)
        cleared == RemoveDependencies(wb.dependency_graph, cell_key)
        parsed == ParserParse(value.s)
        added == AddDependencies(cleared, cell_key,
                     ReferenceKeys(sheet_name, ExtractCellReferences(parsed.ast)))
        Store(g) ==
            MarkDirty([wb EXCEPT !.dependency_graph = g,
                                 !.sheets[sheet_name] = SheetSetCell(@, addr, value)],
                      sheet_name, addr)
    IN IF sheet_name \notin DOMAIN wb.sheets
       THEN Outcome("Internal", "sheet",
                [wb EXCEPT !.dependency_graph =
                    RemoveDependencies(@, Key(wb.active_sheet, addr))])
       ELSE IF value.t # "Formula" THEN Outcome("Ok", "marked", Store(cleared))
       ELSE IF ~parsed.ok
            THEN Outcome("ParseError", "parse", [wb EXCEPT !.dependency_graph = cleared])
       ELSE IF CheckCircularReference(added, cell_key)
            THEN Outcome("CircularReference", "cycle",
                         [wb EXCEPT !.dependency_graph = RemoveDependencies(added, cell_key)])
       ELSE Outcome("Ok", "marked", Store(added))

\* Workbook::set_cell_value up to the call of recalculate (model.rs:509-546)
SetCellValueMark(wb, sheet_name, addr, value) ==
    LET cell_key == Key(sheet_name, addr)
        cleared == RemoveDependencies(wb.dependency_graph, cell_key)
        parsed == ParserParse(value.s)
        added == AddDependencies(cleared, cell_key,
                     ReferenceKeys(sheet_name, ExtractCellReferences(parsed.ast)))
        Store(g) ==
            MarkDirty([wb EXCEPT !.dependency_graph = g,
                                 !.sheets[sheet_name] = SheetSetCell(@, addr, value)],
                      sheet_name, addr)
    IN IF sheet_name \notin DOMAIN wb.sheets THEN Outcome("Internal", "sheet", wb)
       ELSE IF value.t # "Formula" THEN Outcome("Ok", "marked", Store(cleared))
       ELSE IF ~parsed.ok
            THEN Outcome("ParseError", "parse", [wb EXCEPT !.dependency_graph = cleared])
       ELSE IF CheckCircularReference(added, cell_key)
            THEN Outcome("CircularReference", "cycle",
                         [wb EXCEPT !.dependency_graph = RemoveDependencies(added, cell_key)])
       ELSE Outcome("Ok", "marked", Store(added))

\* the orders in which a HashSet may yield its elements (model.rs:571): the
\* hasher of a std HashSet is seeded at random, any order is possible
Orders(set) ==
    {ord \in [1..Cardinality(set) -> set] :
        \A i, j \in 1..Cardinality(set) : ord[i] = ord[j] => i = j}

RECURSIVE RecalculateLoop(_, _, _)
\* the loop of Workbook::recalculate (model.rs:571-597) over the taken dirty
\* cells, from position i of the iteration order on
RecalculateLoop(wb, ord, i) ==
    IF i > Len(ord) THEN Outcome("Ok", "done", wb)
    ELSE LET sheet_name == ord[i][1]
             cell_addr == ord[i][2]
         IN IF sheet_name \notin DOMAIN wb.sheets THEN RecalculateLoop(wb, ord, i + 1)
            ELSE IF cell_addr \notin DOMAIN wb.sheets[sheet_name]
                 THEN RecalculateLoop(wb, ord, i + 1)
            ELSE LET cell == wb.sheets[sheet_name][cell_addr]
                     r == EvaluateFormula(wb, sheet_name, cell.value.s)
                 IN IF cell.value.t # "Formula" THEN RecalculateLoop(wb, ord, i + 1)
                    ELSE IF ~r.ok THEN Outcome(r.err, "recalc", wb)
                    ELSE RecalculateLoop(
                             [wb EXCEPT !.sheets[sheet_name][cell_addr].calculated_value = r.v],
                             ord, i + 1)

\* Workbook::recalculate (model.rs:566-600); ord is the order in which the
\* taken set is iterated
Recalculate(wb, ord) == RecalculateLoop([wb EXCEPT !.dirty_cells = {}], ord, 1)

\* Workbook::set_cell_value (model.rs:509-552), the whole call
SetCellValue(wb, sheet_name, addr, value, ord) ==
    LET marked == SetCellValueMark(wb, sheet_name, addr, value)
    IN IF marked.result # "Ok" THEN marked ELSE Recalculate(marked.wb, ord)

\* the iteration orders the recalculation of a write can take
WriteOrders(wb, sheet_name, addr, value) ==
    LET marked == SetCellValueMark(wb, sheet_name, addr, value)
    IN IF marked.result # "Ok" THEN {<<>>} ELSE Orders(marked.wb.dirty_cells)

(***************************************************************************)
(* The state machine: one workbook and the calls made on it.               *)
(***************************************************************************)
VARIABLES sheets, active_sheet, dependency_graph, dirty_cells, last, probe, api, run

vars == <<sheets, active_sheet, dependency_graph, dirty_cells, last, probe, api, run>>

\* probe holds the last call of a function that takes no workbook: the name
\* of the function, its arguments and, last, its result
NoProbe == <<"none">>

\* the threads that call the facade
MaxThreads == 2
Threads == 1..MaxThreads

\* api holds the facade (api.rs:11-13): the position of every thread in its
\* call, the sheet name it has passed, the sheet names its export has read,
\* and the threads that hold a write guard and a read guard of the lock
ApiNew ==
    [pc |-> [t \in Threads |-> "idle"],
     name |-> [t \in Threads |-> ""],
     seen |-> [t \in Threads |-> {}],
     writers |-> {},
     readers |-> {}]

\* run holds one call of set_cell_value taken loop by loop: the graph after
\* the edges of the written cell key were added, the frames, visited and path
\* of the depth-first check, the queue and result of get_dependents, the
\* dirty set and the cells the pass has taken and not yet visited
RunNew ==
    [phase |-> "idle", g |-> DependencyGraphNew, key |-> Key("", <<0, 0>>),
     stack |-> <<>>, visited |-> {}, path |-> {},
     queue |-> <<>>, result |-> {}, dirty |-> {}, taken |-> {}, returned |-> ""]

\* the workbook held by the variables
Workbook ==
    [sheets |-> sheets, active_sheet |-> active_sheet,
     dependency_graph |-> dependency_graph, dirty_cells |-> dirty_cells]

\* the values given to set_cell_value
WrittenValues == {Number(x) : x \in 1..MaxNum} \cup {Formula(f) : f \in FormulaTexts}

Becomes(out, op) ==
    /\ sheets' = out.wb.sheets
    /\ active_sheet' = out.wb.active_sheet
    /\ dependency_graph' = out.wb.dependency_graph
    /\ dirty_cells' = out.wb.dirty_cells
    /\ last' = [op |-> op, result |-> out.result, stage |-> out.stage]
    /\ probe' = probe
    /\ UNCHANGED <<api, run>>

Init ==
    /\ sheets = WorkbookNew.sheets
    /\ active_sheet = WorkbookNew.active_sheet
    /\ dependency_graph = WorkbookNew.dependency_graph
    /\ dirty_cells = WorkbookNew.dirty_cells
    /\ last = [op |-> "new", result |-> "Ok", stage |-> "done"]
    /\ probe = NoProbe
    /\ api = ApiNew
    /\ run = RunNew

DoAddSheet ==
    \E name \in SheetNames : Becomes(AddSheet(Workbook, name), "add_sheet")

\* the cap on the numbers a workbook holds
WithinValues(wb) ==
    \A n \in DOMAIN wb.sheets : \A a \in DOMAIN wb.sheets[n] :
        wb.sheets[n][a].calculated_value.n <= MaxValue

\* the calls made: every value to every cell of the sheets that may exist, one
\* literal and one formula to a cell of the sheet that does not
Writes ==
    (SheetNames \X Addrs \X
        ({Number(x) : x \in 1..MaxNum} \cup {Formula(FormulaText(ast)) : ast \in RefAsts}))
    \cup (SheetNames \X {<<MaxRow, 0>>} \X {Formula(FormulaText(ast)) : ast \in AddAsts})
    \cup (SheetNames \X {<<1, 0>>} \X
            ({Formula(FormulaText(ast)) : ast \in SheetAsts} \cup {Formula(BadFormulaText)}))
    \cup ({UnknownSheet} \X {<<0, 0>>} \X {Number(1), Formula(FormulaText(RefCell(<<0, 0>>)))})

DoSetCellValue ==
    \E <<sheet_name, addr, value>> \in Writes :
        \E ord \in WriteOrders(Workbook, sheet_name, addr, value) :
            LET out == SetCellValue(Workbook, sheet_name, addr, value, ord)
            IN WithinValues(out.wb) /\ Becomes(out, "set_cell_value")

Next == DoAddSheet \/ DoSetCellValue

Spec == Init /\ [][Next]_vars

(***************************************************************************)
(* The workbook with the delete of a cell among the calls.                 *)
(***************************************************************************)
\* the cells that are deleted
DeletedAddrs == {<<0, 0>>}

DoDeleteCell ==
    \E sheet_name \in DOMAIN sheets, addr \in DeletedAddrs :
        Becomes(DeleteCell(Workbook, sheet_name, addr), "delete_cell")

NextDelete == Next \/ DoDeleteCell

SpecDelete == Init /\ [][NextDelete]_vars

(***************************************************************************)
(* The functions that take no workbook, each applied to inputs from a      *)
(* small set.                                                              *)
(***************************************************************************)
\* columns 0..MaxA1Col and rows 0..MaxA1Row are converted, and the corners
MaxA1Col == 60
MaxA1Row == 10

\* the columns around the steps from one letter to two and from two to three,
\* and the last column below 2^14; the last row below 2^20
A1Cols == 0..MaxA1Col \cup {675, 676, 701, 702, 703, 16383}
A1Rows == 0..MaxA1Row \cup {98, 99, 1048575}
A1Addrs == {<<r, c>> : r \in A1Rows, c \in A1Cols}
\* references that are not written by to_a1
OtherReferences == {"", "A", "7", "b2", "A-1", "A1B"}

\* the strings given to From<&str>
RawTexts == {"", "=", "=A1", "42", "TRUE", "true", "False", "hello", "A=1"}

\* the operands given to the binary operators
OperandValues ==
    {Blank, Number(0), Number(1), Boolean(TRUE), Boolean(FALSE),
     Text(""), Text("a"), Text("A"), Text("B"), Text("1"),
     Error("#DIV/0!"), Error("#NAME?"), Formula("=A1")}

\* the workbook is left alone by these calls
NoWorkbookCall ==
    UNCHANGED <<sheets, active_sheet, dependency_graph, dirty_cells, last, api, run>>

DoToA1 ==
    \E addr \in A1Addrs :
        probe' = <<"to_a1", addr, ToA1(addr)>> /\ NoWorkbookCall

\* from_a1 of the string that to_a1 has written, or of another string
DoFromA1 ==
    \/ /\ probe[1] = "to_a1"
       /\ probe' = <<"from_a1", probe[2], probe[3], FromA1(probe[3])>>
       /\ NoWorkbookCall
    \/ \E reference \in OtherReferences :
           probe' = <<"from_a1", <<0, 0>>, reference, FromA1(reference)>> /\ NoWorkbookCall

DoFromStr ==
    \E value \in RawTexts :
        probe' = <<"from_str", value, CellValueFromStr(value)>> /\ NoWorkbookCall

DoBinaryOp ==
    \E operator \in BinaryOperators, left, right \in OperandValues :
        /\ probe' = <<"binary_op", operator, left, right, ApplyBinaryOp(operator, left, right)>>
        /\ NoWorkbookCall

NextPure == DoToA1 \/ DoFromA1 \/ DoFromStr \/ DoBinaryOp

SpecPure == Init /\ [][NextPure]_vars

(***************************************************************************)
(* The two conversions between decimal and binary, applied to numbers      *)
(* around the 10-bit range.                                                *)
(***************************************************************************)
\* the numbers given to DEC2BIN reach MaxDec on both sides of 0
MaxDec == 520
\* arguments of BIN2DEC that DEC2BIN does not write
OtherBinaries ==
    {Text(""), Text("12"), Text("0000000101"), Text("10000000000"), Number(101), Number(2), Blank}

DoDec2Bin ==
    \E n \in (0 - MaxDec)..MaxDec :
        probe' = <<"dec2bin", n, Dec2Bin(<<Number(n)>>)>> /\ NoWorkbookCall

\* bin2dec of the text that dec2bin has written, or of another argument
DoBin2Dec ==
    \/ /\ probe[1] = "dec2bin"
       /\ probe[3].ok
       /\ probe' = <<"bin2dec", probe[2], probe[3].v, Bin2Dec(<<probe[3].v>>)>>
       /\ NoWorkbookCall
    \/ \E arg \in OtherBinaries :
           probe' = <<"bin2dec_of", arg, Bin2Dec(<<arg>>)>> /\ NoWorkbookCall

NextBinary == DoDec2Bin \/ DoBin2Dec

SpecBinary == Init /\ [][NextBinary]_vars

(***************************************************************************)
(* The workbook with function formulas: literals of every kind in the      *)
(* first two cells, a function formula in the last cell.                   *)
(***************************************************************************)
FunctionWrites ==
    (SheetNames \X {<<0, 0>>} \X
        {Blank, Number(1), Boolean(TRUE), Text("a"), Error("#DIV/0!"), Error("#N/A")})
    \cup (SheetNames \X {<<1, 0>>} \X {Blank, Number(1), Boolean(TRUE), Text("a")})
    \cup (SheetNames \X {<<MaxRow, 0>>} \X {Formula(FormulaText(ast)) : ast \in FunctionAsts})

DoSetFunctionCell ==
    \E <<sheet_name, addr, value>> \in FunctionWrites :
        \E ord \in WriteOrders(Workbook, sheet_name, addr, value) :
            Becomes(SetCellValue(Workbook, sheet_name, addr, value, ord), "set_cell_value")

NextFunctions == DoAddSheet \/ DoSetFunctionCell

SpecFunctions == Init /\ [][NextFunctions]_vars

(***************************************************************************)
(* The thread-safe facade (api.rs:11-58): each thread makes one call after *)
(* the other; a call is taken statement by statement.                      *)
(***************************************************************************)
\* the names given to add_sheet through the facade
ApiSheetNames == {"S", "T"}

\* the positions inside the mutation of add_sheet and inside the read of
\* export_xlsx
WritePcs == {"add_sheet_insert", "add_sheet_activate"}
ReadPcs == {"export_names", "export_sheets"}

\* a variant of RwLock::write that does not wait for the readers
WriteAvailableToReaders(lock) == lock.writers = {}

\* RwLock::write (api.rs:30) returns when no guard is held
WriteAvailable(lock) == lock.writers = {} /\ lock.readers = {}

\* RwLock::read (api.rs:48) returns when no write guard is held
ReadAvailable(lock) == lock.writers = {}

\* read_xlsx (xlsx.rs:10-14)
ReadXlsx == Err("NotImplemented")

\* the calls leave the variables of the other machines alone
ApiFrame == UNCHANGED <<dependency_graph, dirty_cells, last, probe, run>>

\* a thread enters add_sheet or export_xlsx
ApiCall(t) ==
    /\ api.pc[t] = "idle"
    /\ \/ \E name \in ApiSheetNames :
              api' = [api EXCEPT !.pc[t] = "add_sheet_lock", !.name[t] = name]
       \/ api' = [api EXCEPT !.pc[t] = "export_lock"]
    /\ UNCHANGED <<sheets, active_sheet>>
    /\ ApiFrame

\* import_xlsx (api.rs:53-58): read_xlsx fails and the ? at api.rs:54 returns
\* before the lock is taken
ApiImportXlsx(t) ==
    /\ api.pc[t] = "idle"
    /\ ~ReadXlsx.ok
    /\ api' = [api EXCEPT !.pc[t] = "import_failed"]
    /\ UNCHANGED <<sheets, active_sheet>>
    /\ ApiFrame

\* the call that has failed returns
ApiImportReturn(t) ==
    /\ api.pc[t] = "import_failed"
    /\ api' = [api EXCEPT !.pc[t] = "idle"]
    /\ UNCHANGED <<sheets, active_sheet>>
    /\ ApiFrame

\* self.workbook.write() of add_sheet (api.rs:30)
ApiWriteLock(t) ==
    /\ api.pc[t] = "add_sheet_lock"
    /\ WriteAvailable(api)
    /\ api' = [api EXCEPT !.pc[t] = "add_sheet_insert", !.writers = @ \cup {t}]
    /\ UNCHANGED <<sheets, active_sheet>>
    /\ ApiFrame

\* wb.add_sheet up to the insertion of the sheet (model.rs:458-463); the
\* early return drops the guard
ApiAddSheetInsert(t) ==
    /\ api.pc[t] = "add_sheet_insert"
    /\ IF api.name[t] \in DOMAIN sheets
       THEN /\ api' = [api EXCEPT !.pc[t] = "idle", !.writers = @ \ {t}]
            /\ UNCHANGED sheets
       ELSE /\ api' = [api EXCEPT !.pc[t] = "add_sheet_activate"]
            /\ sheets' = [n \in DOMAIN sheets \cup {api.name[t]} |->
                              IF n = api.name[t] THEN NoCells ELSE sheets[n]]
    /\ UNCHANGED active_sheet
    /\ ApiFrame

\* wb.add_sheet from the test of active_sheet on (model.rs:466-470); the
\* guard is dropped at the end of add_sheet (api.rs:32)
ApiAddSheetActivate(t) ==
    /\ api.pc[t] = "add_sheet_activate"
    /\ active_sheet' = IF active_sheet = "" THEN api.name[t] ELSE active_sheet
    /\ api' = [api EXCEPT !.pc[t] = "idle", !.writers = @ \ {t}]
    /\ UNCHANGED sheets
    /\ ApiFrame

\* self.workbook.read() of export_xlsx (api.rs:48)
ApiReadLock(t) ==
    /\ api.pc[t] = "export_lock"
    /\ ReadAvailable(api)
    /\ api' = [api EXCEPT !.pc[t] = "export_names", !.readers = @ \cup {t}]
    /\ UNCHANGED <<sheets, active_sheet>>
    /\ ApiFrame

\* write_xlsx reads the sheet names (xlsx.rs:22)
ApiExportNames(t) ==
    /\ api.pc[t] = "export_names"
    /\ api' = [api EXCEPT !.pc[t] = "export_sheets", !.seen[t] = DOMAIN sheets]
    /\ UNCHANGED <<sheets, active_sheet>>
    /\ ApiFrame

\* write_xlsx reads the sheet of every name (xlsx.rs:23-40) and saves; the
\* guard is dropped at the end of export_xlsx (api.rs:50)
ApiExportSheets(t) ==
    /\ api.pc[t] = "export_sheets"
    /\ api.seen[t] \subseteq DOMAIN sheets
    /\ api' = [api EXCEPT !.pc[t] = "idle", !.readers = @ \ {t}, !.seen[t] = {}]
    /\ UNCHANGED <<sheets, active_sheet>>
    /\ ApiFrame

NextApi ==
    \E t \in Threads :
        \/ ApiCall(t)
        \/ ApiImportXlsx(t)
        \/ ApiImportReturn(t)
        \/ ApiWriteLock(t)
        \/ ApiAddSheetInsert(t)
        \/ ApiAddSheetActivate(t)
        \/ ApiReadLock(t)
        \/ ApiExportNames(t)
        \/ ApiExportSheets(t)

SpecApi == Init /\ [][NextApi]_vars

(***************************************************************************)
(* One call of set_cell_value taken loop by loop (model.rs:392-431,        *)
(* 338-364, 555-600): the depth-first cycle check from the written cell,   *)
(* the breadth-first traversal of its dependents, the recalculation pass.  *)
(***************************************************************************)
\* the cells of the graphs are those of rows 0..MaxNode
MaxNode == 3
DriverKeys == {Key("S", <<r, 0>>) : r \in 0..MaxNode}

\* the edges a graph is made of, as pairs <<cell, precedent>> of rows: a
\* diamond from row 0 to row 3, an edge across it and an edge back
CandidateEdges == {<<0, 1>>, <<0, 2>>, <<1, 3>>, <<2, 3>>, <<1, 2>>, <<3, 0>>}

RECURSIVE BuildGraph(_)
\* the graph that add_dependency makes of a set of edges
BuildGraph(edges) ==
    IF edges = {} THEN DependencyGraphNew
    ELSE LET e == CHOOSE e \in edges : TRUE
         IN AddDependency(BuildGraph(edges \ {e}),
                          Key("S", <<e[1], 0>>), Key("S", <<e[2], 0>>))

RECURSIVE ClosePrecedents(_, _)
\* the cells reached from the cells seen by the edges of the precedents map
ClosePrecedents(g, seen) ==
    LET more == seen \cup UNION {MapGet(g.precedents, k) : k \in seen}
    IN IF more = seen THEN seen ELSE ClosePrecedents(g, more)

\* the precedents of k, direct and indirect
ReachPrecedents(g, k) ==
    IF MapGet(g.precedents, k) = {} THEN {} ELSE ClosePrecedents(g, MapGet(g.precedents, k))

\* no cell of the graph is its own precedent through one or more edges
Acyclic(g) == \A k \in DOMAIN g.precedents : k \notin ReachPrecedents(g, k)

\* dfs_check_circular entered for a cell (model.rs:404-417): a cell on the
\* path ends the search with true, which every caller returns at once
\* (model.rs:422-424) and set_cell_value turns into Err (model.rs:535-539); a
\* visited cell returns false; any other cell gets a frame
DfsEnter(r, cell) ==
    IF cell \in r.path
    THEN [r EXCEPT !.stack = <<>>, !.phase = "done", !.returned = "CircularReference"]
    ELSE IF cell \in r.visited THEN r
    ELSE [r EXCEPT !.path = @ \cup {cell},
                   !.visited = @ \cup {cell},
                   !.stack = Append(@, [cell |-> cell,
                                        todo |-> MapGet(r.g.precedents, cell)])]

\* a variant of the iteration that yields the same element again
RemainingSame(set, x) == set

\* the elements an iteration over a set has left after it has yielded x
\* (model.rs:420, 571)
Remaining(set, x) == set \ {x}

DriverFrame ==
    UNCHANGED <<sheets, active_sheet, dependency_graph, dirty_cells, last, probe, api>>

\* a call starts: the graph was acyclic before the edges of the written cell
\* were added (model.rs:529-532)
DriverStart ==
    /\ run.phase \in {"idle", "done"}
    /\ \E edges \in SUBSET CandidateEdges, key \in DriverKeys :
           /\ Acyclic(RemoveDependencies(BuildGraph(edges), key))
           /\ run' = [RunNew EXCEPT !.phase = "check", !.g = BuildGraph(edges), !.key = key]
    /\ DriverFrame

\* check_circular_reference calls dfs_check_circular for the written cell
\* (model.rs:392-397)
DriverCheckCall ==
    /\ run.phase = "check" /\ run.visited = {}
    /\ run' = DfsEnter(run, run.key)
    /\ DriverFrame

\* the loop of the innermost dfs_check_circular over the precedents
\* (model.rs:419-425) and its return (model.rs:427-430)
DriverCheckStep ==
    /\ run.phase = "check" /\ run.stack # <<>>
    /\ LET top == run.stack[Len(run.stack)]
       IN IF top.todo = {}
          THEN run' = [run EXCEPT !.path = @ \ {top.cell},
                                  !.stack = SubSeq(@, 1, Len(@) - 1)]
          ELSE \E p \in top.todo :
                   run' = DfsEnter([run EXCEPT !.stack[Len(run.stack)].todo =
                                                   Remaining(@, p)], p)
    /\ DriverFrame

\* no cycle: the cell is stored and mark_dirty inserts it and queues its
\* direct dependents (model.rs:542-546, 556, 339-350)
DriverCheckReturn ==
    /\ run.phase = "check" /\ run.visited # {} /\ run.stack = <<>>
    /\ \E ord \in Orders(MapGet(run.g.dependents, run.key)) :
           run' = [run EXCEPT !.phase = "mark", !.dirty = {run.key}, !.queue = ord,
                              !.result = MapGet(run.g.dependents, run.key)]
    /\ DriverFrame

\* the queue loop of get_dependents (model.rs:352-361)
DriverMarkStep ==
    /\ run.phase = "mark" /\ run.queue # <<>>
    /\ LET current == Head(run.queue)
           fresh == MapGet(run.g.dependents, current) \ run.result
       IN \E ord \in Orders(fresh) :
              run' = [run EXCEPT !.queue = Tail(@) \o ord, !.result = @ \cup fresh]
    /\ DriverFrame

\* get_dependents returns and mark_dirty inserts the result (model.rs:363,
\* 559-562)
DriverMarkReturn ==
    /\ run.phase = "mark" /\ run.queue = <<>>
    /\ run' = [run EXCEPT !.phase = "take", !.dirty = @ \cup run.result]
    /\ DriverFrame

\* recalculate takes the dirty set (model.rs:569)
DriverTake ==
    /\ run.phase = "take"
    /\ run' = [run EXCEPT !.phase = "recalc", !.taken = run.dirty, !.dirty = {}]
    /\ DriverFrame

\* one iteration of the pass (model.rs:571-597): the cell is evaluated, or
\* the evaluation fails and the ? at model.rs:590 returns
DriverRecalcStep ==
    /\ run.phase = "recalc" /\ run.taken # {}
    /\ \E cell \in run.taken :
           \/ run' = [run EXCEPT !.taken = Remaining(@, cell)]
           \/ run' = [run EXCEPT !.phase = "done", !.taken = {},
                                 !.returned = "EvaluationError"]
    /\ DriverFrame

\* the pass is over, set_cell_value returns Ok (model.rs:599, 549-551)
DriverRecalcReturn ==
    /\ run.phase = "recalc" /\ run.taken = {}
    /\ run' = [run EXCEPT !.phase = "done", !.returned = "Ok"]
    /\ DriverFrame

\* the steps of a call that has started
DriverStep ==
    \/ DriverCheckCall
    \/ DriverCheckStep
    \/ DriverCheckReturn
    \/ DriverMarkStep
    \/ DriverMarkReturn
    \/ DriverTake
    \/ DriverRecalcStep
    \/ DriverRecalcReturn

NextDriver == DriverStart \/ DriverStep

\* a call is not suspended: the thread that has entered set_cell_value goes
\* on to its next statement
SpecDriver == Init /\ [][NextDriver]_vars /\ WF_vars(DriverStep)

(***************************************************************************)
(* Notions the properties are stated with.                                 *)
(***************************************************************************)
RECURSIVE ReachLoop(_, _)
ReachLoop(m, seen) ==
    LET more == seen \cup UNION {MapGet(m, k) : k \in seen}
    IN IF more = seen THEN seen ELSE ReachLoop(m, more)

\* the keys reached from k by one or more edges of the map m
Reach(m, k) == IF MapGet(m, k) = {} THEN {} ELSE ReachLoop(m, MapGet(m, k))

\* every key that occurs in the graph
GraphKeys(g) ==
    DOMAIN g.precedents \cup DOMAIN g.dependents
    \cup UNION {g.precedents[k] : k \in DOMAIN g.precedents}
    \cup UNION {g.dependents[k] : k \in DOMAIN g.dependents}

\* the cells of the workbook that hold a formula
FormulaCells(wb) ==
    {k \in (DOMAIN wb.sheets) \X Addrs :
        k[2] \in DOMAIN wb.sheets[k[1]] /\ wb.sheets[k[1]][k[2]].value.t = "Formula"}

\* the qualified addresses a formula text of a cell of sheet_name references
FormulaReferences(sheet_name, text) ==
    IF ParserParse(text).ok
    THEN ReferenceKeys(sheet_name, ExtractCellReferences(ParserParse(text).ast))
    ELSE {}

\* every formula write to a cell of a sheet of the workbook
FormulaWrites(wb) == (DOMAIN wb.sheets) \X Addrs \X {Formula(f) : f \in FormulaTexts}

(***************************************************************************)
(* C1: after any sequence of set_cell_value calls, accepted or rejected,   *)
(* b is in precedents[a] if and only if a is in dependents[b].             *)
(***************************************************************************)
GraphMapsInverse ==
    \A a, b \in GraphKeys(dependency_graph) :
        b \in MapGet(dependency_graph.precedents, a)
            <=> a \in MapGet(dependency_graph.dependents, b)

\* a write was rejected for a cycle and the graph still holds a cell with
\* two precedents
GraphMapsInverseWitness ==
    /\ last.result = "CircularReference"
    /\ \E a \in DOMAIN dependency_graph.precedents :
           Cardinality(dependency_graph.precedents[a]) >= 2

(***************************************************************************)
(* C3: in every reachable state the dependency graph has no cycle: no key  *)
(* is reached from itself by one or more precedent edges.                  *)
(***************************************************************************)
GraphAcyclic ==
    \A k \in GraphKeys(dependency_graph) : k \notin Reach(dependency_graph.precedents, k)

\* a write that would have closed a cycle was rejected, and the graph holds
\* a chain of two edges
GraphAcyclicWitness ==
    /\ last.result = "CircularReference"
    /\ \E a, b \in DOMAIN dependency_graph.precedents :
           /\ a # b
           /\ b \in dependency_graph.precedents[a]
           /\ dependency_graph.precedents[b] \ {a, b} # {}

(***************************************************************************)
(* C4: a formula write to a cell c of the workbook is rejected with        *)
(* CircularReference if and only if some new precedent of the formula is c *)
(* itself or a transitive dependent of c in the graph before the call.     *)
(***************************************************************************)
CycleRejectedIff ==
    \A <<sheet_name, addr, value>> \in FormulaWrites(Workbook) :
        LET c == Key(sheet_name, addr)
            new_precedents == FormulaReferences(sheet_name, value.s)
        IN \A ord \in WriteOrders(Workbook, sheet_name, addr, value) :
            (SetCellValue(Workbook, sheet_name, addr, value, ord).result = "CircularReference")
                <=> \E p \in new_precedents :
                        p = c \/ c \in Reach(dependency_graph.precedents, p)

\* a write has been rejected for a cycle, and in the state it left a formula
\* write is rejected whose precedents are neither the cell itself nor a
\* direct dependent of it: the cycle is closed through a chain
CycleRejectedIffWitness ==
    /\ last.result = "CircularReference"
    /\ \E <<sheet_name, addr, value>> \in FormulaWrites(Workbook) :
           /\ SetCellValueMark(Workbook, sheet_name, addr, value).result = "CircularReference"
           /\ \A p \in FormulaReferences(sheet_name, value.s) :
                  /\ p # Key(sheet_name, addr)
                  /\ p \notin MapGet(dependency_graph.dependents, Key(sheet_name, addr))

(***************************************************************************)
(* C2: after every mutating call, for every cell c that holds a formula,   *)
(* precedents[c] is exactly the set of addresses the formula text          *)
(* references, and c is in dependents[p] for each of them; also after a    *)
(* later write to c was rejected for a cycle or failed to parse.           *)
(***************************************************************************)
PrecedentsMatchFormulas ==
    \A c \in FormulaCells(Workbook) :
        LET references == FormulaReferences(c[1], sheets[c[1]][c[2]].value.s)
        IN /\ MapGet(dependency_graph.precedents, c) = references
           /\ \A p \in references : c \in MapGet(dependency_graph.dependents, p)

(***************************************************************************)
(* C5: when set_cell_value rejects a write because of a cycle, the         *)
(* workbook after the call is the workbook before the call: cells, both    *)
(* graph maps and the dirty set.                                           *)
(***************************************************************************)
CycleRejectionLeavesWorkbook ==
    [][last'.result = "CircularReference"
          => UNCHANGED <<sheets, active_sheet, dependency_graph, dirty_cells>>]_vars

(***************************************************************************)
(* C6: after every successful mutating call, re-evaluating any formula     *)
(* cell that is not in the dirty set yields the computed value it stores.  *)
(***************************************************************************)
NoStaleFormulaCell ==
    last.result = "Ok" =>
        \A c \in FormulaCells(Workbook) \ dirty_cells :
            LET cell == sheets[c[1]][c[2]]
                again == EvaluateFormula(Workbook, c[1], cell.value.s)
            IN again.ok /\ again.v = cell.calculated_value

(***************************************************************************)
(* C7: the recalculation pass visits the dirty cells in topological order: *)
(* when a dirty formula cell a is re-evaluated, every dirty formula cell   *)
(* that is a transitive precedent of a has been re-evaluated before it.    *)
(***************************************************************************)
\* ord visits the formula cells of wb precedents first
Topological(wb, ord) ==
    \A i, j \in 1..Len(ord) :
        (/\ ord[i] \in FormulaCells(wb)
         /\ ord[j] \in FormulaCells(wb)
         /\ ord[j] \in Reach(wb.dependency_graph.precedents, ord[i])) => j < i

RecalculateTopological ==
    \A <<sheet_name, addr, value>> \in Writes :
        \A ord \in WriteOrders(Workbook, sheet_name, addr, value) :
            Topological(SetCellValueMark(Workbook, sheet_name, addr, value).wb, ord)

(***************************************************************************)
(* C8: when a literal is written to cell p, every formula cell that reads  *)
(* p directly and whose precedents are all literal cells has, when         *)
(* set_cell_value returns, a computed value equal to its formula applied   *)
(* to the current values of its precedents.                                *)
(***************************************************************************)
\* the cell at key k of wb holds no formula (an absent cell is blank)
LiteralCell(wb, k) ==
    /\ k[1] \in DOMAIN wb.sheets
    /\ k[2] \in DOMAIN wb.sheets[k[1]] => wb.sheets[k[1]][k[2]].value.t # "Formula"

\* the formula cells of wb that read p directly and read literal cells only
DirectReaders(wb, p) ==
    {f \in FormulaCells(wb) :
        LET references == FormulaReferences(f[1], wb.sheets[f[1]][f[2]].value.s)
        IN p \in references /\ \A k \in references : LiteralCell(wb, k)}

\* the formula cell f of wb holds the value of its formula
Fresh(wb, f) ==
    LET cell == wb.sheets[f[1]][f[2]]
        now == EvaluateFormula(wb, f[1], cell.value.s)
    IN now.ok /\ cell.calculated_value = now.v

DirectReadersFresh ==
    \A <<sheet_name, addr, value>> \in Writes :
        (value.t # "Formula" /\ sheet_name \in DOMAIN sheets) =>
            \A ord \in WriteOrders(Workbook, sheet_name, addr, value) :
                LET after == SetCellValue(Workbook, sheet_name, addr, value, ord).wb
                IN \A f \in DirectReaders(after, Key(sheet_name, addr)) : Fresh(after, f)

(***************************************************************************)
(* C9: recalculation is deterministic: the same call on the same workbook  *)
(* ends in the same state and result, whatever order the dirty set is      *)
(* iterated in.                                                            *)
(***************************************************************************)
RecalculationDeterministic ==
    \A <<sheet_name, addr, value>> \in Writes :
        \A ord1, ord2 \in WriteOrders(Workbook, sheet_name, addr, value) :
            SetCellValue(Workbook, sheet_name, addr, value, ord1)
                = SetCellValue(Workbook, sheet_name, addr, value, ord2)

(***************************************************************************)
(* C10: two independent writes to cells of the workbook (different         *)
(* targets, neither target a transitive precedent of the other's formula)  *)
(* applied in either order to the same workbook end in the same workbook.  *)
(***************************************************************************)
\* the outcomes of write w on workbook wb
Outcomes(wb, w) ==
    {SetCellValue(wb, w[1], w[2], w[3], ord) : ord \in WriteOrders(wb, w[1], w[2], w[3])}

\* the workbooks that w1 followed by w2 can leave
After(wb, w1, w2) == UNION {{o2.wb : o2 \in Outcomes(o1.wb, w2)} : o1 \in Outcomes(wb, w1)}

\* the target of w1 is no precedent, direct or transitive, of the formula of
\* w2, in the graph g
NotPrecedentOf(g, w1, w2) ==
    \/ w2[3].t # "Formula"
    \/ LET target == Key(w1[1], w1[2])
       IN \A p \in FormulaReferences(w2[1], w2[3].s) :
              p # target /\ target \notin Reach(g.precedents, p)

\* independence, judged on the graph before the writes and on the graph
\* after each of them
Independent(wb, w1, w2) ==
    /\ Key(w1[1], w1[2]) # Key(w2[1], w2[2])
    /\ \A g \in {wb.dependency_graph,
                 SetCellValueMark(wb, w1[1], w1[2], w1[3]).wb.dependency_graph,
                 SetCellValueMark(wb, w2[1], w2[2], w2[3]).wb.dependency_graph} :
           NotPrecedentOf(g, w1, w2) /\ NotPrecedentOf(g, w2, w1)

IndependentWritesCommute ==
    \A w1, w2 \in {w \in Writes : w[1] \in DOMAIN sheets} :
        Independent(Workbook, w1, w2) =>
            \A a \in After(Workbook, w1, w2), b \in After(Workbook, w2, w1) : a = b

(***************************************************************************)
(* C11: writing to a cell the raw value it already holds leaves the        *)
(* computed value of every cell of the workbook unchanged.                 *)
(***************************************************************************)
\* the cells that exist in wb
ExistingCells(wb) ==
    {k \in (DOMAIN wb.sheets) \X Addrs : k[2] \in DOMAIN wb.sheets[k[1]]}

RewriteKeepsComputedValues ==
    \A k \in ExistingCells(Workbook) :
        LET held == sheets[k[1]][k[2]].value
        IN \A ord \in WriteOrders(Workbook, k[1], k[2], held) :
            LET after == SetCellValue(Workbook, k[1], k[2], held, ord).wb
            IN \A c \in (DOMAIN sheets) \X Addrs :
                   GetCellValue(after, c[1], c[2]) = GetCellValue(Workbook, c[1], c[2])

(***************************************************************************)
(* C12: from_a1(to_a1(a)) succeeds and returns a, for every address a with *)
(* row below 2^20 and column below 2^14.                                   *)
(***************************************************************************)
A1RoundTrip ==
    (probe[1] = "from_a1" /\ probe[3] = ToA1(probe[2])) =>
        (probe[4].ok /\ probe[4].addr = probe[2])

\* the last row and the last column have made the round trip
A1RoundTripWitness ==
    /\ probe[1] = "from_a1"
    /\ probe[2] = <<1048575, 16383>>
    /\ probe[3] = "XFD1048576"
    /\ probe[4].ok

(***************************************************************************)
(* C13: when the evaluation of a dirty formula cell fails with an engine   *)
(* error during a recalculation pass, the cell gets a computed value that  *)
(* is an error of kind #NAME?, #REF! or #VALUE!, and every other dirty     *)
(* formula cell of the pass is re-evaluated all the same.                  *)
(***************************************************************************)
RecalcErrorBecomesCellValue ==
    \A <<sheet_name, addr, value>> \in Writes :
        LET marked == SetCellValueMark(Workbook, sheet_name, addr, value)
        IN marked.result = "Ok" =>
            \A ord \in Orders(marked.wb.dirty_cells) :
                LET after == Recalculate(marked.wb, ord).wb
                IN \A k \in marked.wb.dirty_cells \cap FormulaCells(after) :
                    LET cell == after.sheets[k[1]][k[2]]
                    IN /\ cell.calculated_value # None
                       /\ ~EvaluateFormula(after, k[1], cell.value.s).ok =>
                              cell.calculated_value \in
                                  {Error("#NAME?"), Error("#REF!"), Error("#VALUE!")}

(***************************************************************************)
(* C14: when set_cell_value is given a formula text that does not parse,   *)
(* the call returns the parse failure and the target cell is stored with   *)
(* the computed value #NAME?; the cell is not left holding its old formula *)
(* with the edges of that formula removed.                                 *)
(***************************************************************************)
ParseFailureStoresNameError ==
    \A <<sheet_name, addr, value>> \in FormulaWrites(Workbook) :
        ~ParserParse(value.s).ok =>
            LET out == SetCellValueMark(Workbook, sheet_name, addr, value)
                cells == out.wb.sheets[sheet_name]
            IN /\ out.result = "ParseError"
               /\ addr \in DOMAIN cells
               /\ EffectiveValue(cells[addr]) = Error("#NAME?")
               /\ MapGet(out.wb.dependency_graph.precedents, Key(sheet_name, addr))
                      = FormulaReferences(sheet_name, cells[addr].value.s)

(***************************************************************************)
(* C15: after the delete of a cell the cell reads as blank, the edges from *)
(* the cell to its precedents are gone, and every transitive dependent of  *)
(* the cell holds the value of its formula over the blank cell.            *)
(***************************************************************************)
DeleteCellIsSetBlank ==
    \A k \in ExistingCells(Workbook) :
        LET after == DeleteCell(Workbook, k[1], k[2]).wb
        IN /\ GetCellValue(after, k[1], k[2]) = Ok(Blank)
           /\ MapGet(after.dependency_graph.precedents, k) = {}
           /\ \A p \in DOMAIN after.dependency_graph.dependents :
                  k \notin after.dependency_graph.dependents[p]
           /\ \A f \in GetDependents(after.dependency_graph, k) \cap FormulaCells(after) :
                  Fresh(after, f)

(***************************************************************************)
(* C16: add_sheet with a name that a sheet of the workbook already has     *)
(* returns an error and leaves the workbook as it is: the same sheets with *)
(* the same cells, the same active sheet.                                  *)
(***************************************************************************)
AddSheetDuplicateRejected ==
    \A name \in DOMAIN sheets :
        AddSheet(Workbook, name) = Outcome("Internal", "sheet", Workbook)

\* add_sheet has been rejected for a sheet that holds a formula cell
AddSheetDuplicateRejectedWitness ==
    /\ last.op = "add_sheet"
    /\ last.result = "Internal"
    /\ FormulaCells(Workbook) # {}
    /\ active_sheet \in DOMAIN sheets

(***************************************************************************)
(* C17: the conversion of raw text classifies it: text that starts with    *)
(* '=' is a formula, text of digits a number, TRUE or FALSE in any letter  *)
(* case a boolean, the empty string blank, anything else text.             *)
(***************************************************************************)
RECURSIVE Uppercase(_)
Uppercase(str) ==
    IF str = "" THEN "" ELSE ToAsciiUppercase(Head(str)) \o Uppercase(Tail(str))

RECURSIVE AllDigits(_)
AllDigits(str) == str = "" \/ (IsNumeric(Head(str)) /\ AllDigits(Tail(str)))

\* the class the property gives to a raw text
Classified(str) ==
    IF str = "" THEN Blank
    ELSE IF Head(str) = "=" THEN Formula(str)
    ELSE IF AllDigits(str) THEN Number(ParseU32(str, 0))
    ELSE IF Uppercase(str) = "TRUE" THEN Boolean(TRUE)
    ELSE IF Uppercase(str) = "FALSE" THEN Boolean(FALSE)
    ELSE Text(str)

RawTextClassified ==
    probe[1] = "from_str" => probe[3] = Classified(probe[2])

(***************************************************************************)
(* C18: the computed value of a formula cell that has been evaluated is a  *)
(* number, a text, a boolean or an error: never blank, never a formula.    *)
(***************************************************************************)
FormulaValueNeverBlank ==
    \A c \in FormulaCells(Workbook) :
        LET computed == sheets[c[1]][c[2]].calculated_value
        IN computed # None => computed.t \in {"Number", "Text", "Boolean", "Error"}

(***************************************************************************)
(* C19: for every binary operator, when an operand is an error the result  *)
(* is the error value of the left operand if that is an error, otherwise   *)
(* the error value of the right operand, whatever the other operand is.    *)
(***************************************************************************)
ErrorOperandPropagates ==
    (probe[1] = "binary_op" /\ (probe[3].t = "Error" \/ probe[4].t = "Error")) =>
        probe[5] = Ok(IF probe[3].t = "Error" THEN probe[3] ELSE probe[4])

(***************************************************************************)
(* C20: + - * / ^ take blank as 0 and a boolean as 0 or 1 on either side   *)
(* and compute on the numbers, a division by 0 or by blank being #DIV/0!;  *)
(* text that is no number gives #VALUE!.                                   *)
(***************************************************************************)
\* the operands that count as numbers
Numeric(v) == v.t \in {"Blank", "Number", "Boolean"}

\* the operator on two whole numbers
Arithmetic(operator, a, b) ==
    CASE operator = "Add" -> Number(a + b)
      [] operator = "Subtract" -> Number(a - b)
      [] operator = "Multiply" -> Number(a * b)
      [] operator = "Divide" -> IF b = 0 THEN Error("#DIV/0!") ELSE Number(a \div b)
      [] operator = "Power" -> Number(Powf(a, b))

ArithmeticCoerces ==
    (probe[1] = "binary_op" /\ probe[2] \in ArithmeticOperators) =>
        /\ (Numeric(probe[3]) /\ Numeric(probe[4])) =>
               probe[5] = Ok(Arithmetic(probe[2], probe[3].n, probe[4].n))
        /\ (/\ {probe[3], probe[4]} \cap {Text("a"), Text("B")} # {}
            /\ probe[3].t # "Error"
            /\ probe[4].t # "Error") => probe[5] = Ok(Error("#VALUE!"))

(***************************************************************************)
(* C21: a comparison of two operands that are not errors never gives an    *)
(* error; two texts compare without regard to letter case under every      *)
(* operator ("a" = "A" is true); operands of different types are ordered   *)
(* number < text < boolean; exactly one of a<b, a=b, a>b holds.            *)
(***************************************************************************)
ComparisonOperators ==
    {"Equal", "NotEqual", "LessThan", "LessThanOrEqual", "GreaterThan", "GreaterThanOrEqual"}

\* the place of a type in the order number < text < boolean
TypeRank(v) == CASE v.t = "Number" -> 1 [] v.t = "Text" -> 2 [] v.t = "Boolean" -> 3

\* a < b in the total order of the property
OrderLess(a, b) ==
    IF a.t # b.t THEN TypeRank(a) < TypeRank(b)
    ELSE IF a.t = "Text" THEN StrLowerLess(a.s, b.s)
    ELSE a.n < b.n

\* a = b in the total order of the property
OrderEqual(a, b) ==
    /\ a.t = b.t
    /\ IF a.t = "Text" THEN Uppercase(a.s) = Uppercase(b.s) ELSE a.n = b.n

\* the outcome of a comparison in the total order
OrderCompare(operator, a, b) ==
    CASE operator = "Equal" -> OrderEqual(a, b)
      [] operator = "NotEqual" -> ~OrderEqual(a, b)
      [] operator = "LessThan" -> OrderLess(a, b)
      [] operator = "LessThanOrEqual" -> OrderLess(a, b) \/ OrderEqual(a, b)
      [] operator = "GreaterThan" -> OrderLess(b, a)
      [] operator = "GreaterThanOrEqual" -> OrderLess(b, a) \/ OrderEqual(a, b)

\* the comparisons of the triple that hold on two operands
HoldingComparisons(a, b) ==
    {operator \in {"LessThan", "Equal", "GreaterThan"} :
        ApplyBinaryOp(operator, a, b) = Ok(Boolean(TRUE))}

ComparisonTotalOrder ==
    (probe[1] = "binary_op" /\ probe[2] \in ComparisonOperators) =>
        /\ (/\ probe[3].t \in {"Blank", "Number", "Text", "Boolean"}
            /\ probe[4].t \in {"Blank", "Number", "Text", "Boolean"}) =>
               probe[5].ok /\ probe[5].v.t = "Boolean"
        /\ (/\ probe[3].t \in {"Number", "Text", "Boolean"}
            /\ probe[4].t \in {"Number", "Text", "Boolean"}) =>
               /\ probe[5] = Ok(Boolean(OrderCompare(probe[2], probe[3], probe[4])))
               /\ Cardinality(HoldingComparisons(probe[3], probe[4])) = 1

(***************************************************************************)
(* C22: a formula SUM(range) evaluates to the sum over all cells of the    *)
(* rectangle, blanks contributing nothing and booleans counting 0 or 1; it *)
(* is not the value of the first cell of the range alone.                  *)
(***************************************************************************)
\* the cells of a workbook that hold the formula of a tree
CellsHolding(wb, ast) ==
    {c \in ExistingCells(wb) : wb.sheets[c[1]][c[2]].value = Formula(FormulaText(ast))}

RECURSIVE TotalOf(_, _, _)
\* the sum of the values that the cells of a set of addresses hold
TotalOf(wb, sheet_name, members) ==
    IF members = {} THEN 0
    ELSE LET a == CHOOSE a \in members : TRUE
         IN GetCellValue(wb, sheet_name, a).v.n + TotalOf(wb, sheet_name, members \ {a})

SumOverRange ==
    \A c \in CellsHolding(Workbook, SumAst) :
        LET range == SumAst.args[1]
            members == RangeMembers(range.start, range.end)
        IN (\A a \in members :
                GetCellValue(Workbook, c[1], a).v.t \in {"Blank", "Number", "Boolean"}) =>
               GetCellValue(Workbook, c[1], c[2]) = Ok(Number(TotalOf(Workbook, c[1], members)))

(***************************************************************************)
(* C23: IFERROR(x, y) is x whenever x is not an error and y otherwise, for *)
(* every value x and every y; a formula cell =IFERROR(ref, y) whose        *)
(* referenced cell holds a cell error computes y, not the error.           *)
(***************************************************************************)
\* the value the property gives to IFERROR(x, y)
Guarded(x, y) == IF x.t = "Error" THEN y ELSE x

BinaryRoundTrip ==
    /\ probe[1] = "dec2bin" =>
           IF probe[2] < -512 \/ probe[2] > 511 THEN ~probe[3].ok
           ELSE /\ probe[3].ok
                /\ probe[3].v.t = "Text"
                /\ AllBinary(probe[3].v.s)
                /\ probe[2] < 0 => (Len(probe[3].v.s) = 10 /\ Head(probe[3].v.s) = "1")
    /\ probe[1] = "bin2dec" => probe[4] = Ok(Number(probe[2]))

\* the smallest number has gone through both conversions
BinaryRoundTripWitness ==
    /\ probe[1] = "bin2dec"
    /\ probe[2] = -512
    /\ probe[3] = Text("1000000000")
    /\ probe[4] = Ok(Number(-512))

(***************************************************************************)
(* C26: on an accepted write to cell c the set of cells handed to the      *)
(* recalculation pass is exactly c together with every cell reached from c *)
(* by one or more dependents edges; the set computed after the edges of c  *)
(* were replaced is the set computed before the mutation.                  *)
(***************************************************************************)
\* the writes to the sheets the workbook has
SheetWrites == {w \in Writes : w[1] \in DOMAIN sheets}

DirtySetIsTransitiveDependents ==
    \A w \in SheetWrites :
        LET marked == SetCellValueMark(Workbook, w[1], w[2], w[3])
            c == Key(w[1], w[2])
        IN marked.result = "Ok" =>
               /\ marked.wb.dirty_cells =
                      {c} \cup Reach(marked.wb.dependency_graph.dependents, c)
               /\ marked.wb.dirty_cells = {c} \cup Reach(dependency_graph.dependents, c)

\* after an accepted write, a write to a cell with a dependent that has a
\* dependent of its own, and a write that replaces the edges of a cell that
\* has a dependent
DirtySetIsTransitiveDependentsWitness ==
    /\ last = [op |-> "set_cell_value", result |-> "Ok", stage |-> "done"]
    /\ \E w \in SheetWrites :
           LET marked == SetCellValueMark(Workbook, w[1], w[2], w[3])
               c == Key(w[1], w[2])
           IN /\ marked.result = "Ok"
              /\ Cardinality(marked.wb.dirty_cells) = 3
              /\ MapGet(dependency_graph.dependents, c) # marked.wb.dirty_cells \ {c}
    /\ \E w \in SheetWrites :
           LET marked == SetCellValueMark(Workbook, w[1], w[2], w[3])
               c == Key(w[1], w[2])
           IN /\ marked.result = "Ok"
              /\ marked.wb.dirty_cells # {c}
              /\ MapGet(marked.wb.dependency_graph.precedents, c)
                     # MapGet(dependency_graph.precedents, c)

(***************************************************************************)
(* C28: set_cell_value naming a sheet that does not exist returns an       *)
(* engine error and leaves the whole workbook unchanged: no cell, neither  *)
(* graph map (the edges of the same row and column in other sheets stay)   *)
(* and not the dirty set.                                                  *)
(***************************************************************************)
UnknownSheetWriteRejected ==
    /\ \A n \in AllSheetNames \ DOMAIN sheets, a \in Addrs, v \in WrittenValues :
           \A ord \in WriteOrders(Workbook, n, a, v) :
               SetCellValue(Workbook, n, a, v, ord) = Outcome("Internal", "sheet", Workbook)
    /\ (last.op = "set_cell_value" /\ last.stage = "sheet") => last.result = "Internal"

\* a write to the sheet that does not exist has returned while the cell of the
\* same row and column of the existing sheet holds a formula with an edge
UnknownSheetWriteRejectedWitness ==
    /\ last = [op |-> "set_cell_value", result |-> "Internal", stage |-> "sheet"]
    /\ \E n \in DOMAIN sheets :
           /\ <<0, 0>> \in DOMAIN sheets[n]
           /\ sheets[n][<<0, 0>>].value.t = "Formula"
           /\ MapGet(dependency_graph.precedents, Key(n, <<0, 0>>)) # {}

(***************************************************************************)
(* C29: an accepted set_cell_value on cell c changes the raw value of no   *)
(* cell other than c, the computed value of no cell outside c and the      *)
(* transitive dependents of c, and the precedents entry of no cell other   *)
(* than c.                                                                 *)
(***************************************************************************)
\* the cell at key k of a workbook, None when there is no such cell
CellAt(wb, k) ==
    IF k[1] \in DOMAIN wb.sheets /\ k[2] \in DOMAIN wb.sheets[k[1]]
    THEN wb.sheets[k[1]][k[2]]
    ELSE [value |-> None, formula |-> None, calculated_value |-> None]

\* the frame of a write to c that has led from workbook wb to workbook after
Framed(wb, after, c) ==
    LET affected == {c} \cup Reach(after.dependency_graph.dependents, c)
    IN /\ \A k \in (ExistingCells(wb) \cup ExistingCells(after)) \ {c} :
              /\ k \in ExistingCells(wb) \cap ExistingCells(after)
              /\ CellAt(after, k).value = CellAt(wb, k).value
              /\ CellAt(after, k).formula = CellAt(wb, k).formula
       /\ \A k \in ExistingCells(after) \ affected :
              CellAt(after, k).calculated_value = CellAt(wb, k).calculated_value
       /\ \A k \in (GraphKeys(wb.dependency_graph) \cup GraphKeys(after.dependency_graph)) \ {c} :
              MapGet(after.dependency_graph.precedents, k)
                  = MapGet(wb.dependency_graph.precedents, k)

AcceptedWriteFrame ==
    \A w \in SheetWrites :
        \A ord \in WriteOrders(Workbook, w[1], w[2], w[3]) :
            LET out == SetCellValue(Workbook, w[1], w[2], w[3], ord)
            IN out.result = "Ok" => Framed(Workbook, out.wb, Key(w[1], w[2]))

\* after an accepted write, an accepted write that changes the computed value
\* of a dependent while a cell outside its dependents exists
AcceptedWriteFrameWitness ==
    /\ last = [op |-> "set_cell_value", result |-> "Ok", stage |-> "done"]
    /\ \E w \in SheetWrites :
           \E ord \in WriteOrders(Workbook, w[1], w[2], w[3]) :
               LET out == SetCellValue(Workbook, w[1], w[2], w[3], ord)
                   c == Key(w[1], w[2])
                   affected == {c} \cup Reach(out.wb.dependency_graph.dependents, c)
               IN /\ out.result = "Ok"
                  /\ \E k \in affected \ {c} :
                         CellAt(out.wb, k).calculated_value # CellAt(Workbook, k).calculated_value
                  /\ ExistingCells(Workbook) \ affected # {}

(***************************************************************************)
(* C30: whatever calls have failed before (also a call whose recalculation *)
(* stopped on an engine error), once a later set_cell_value returns Ok,    *)
(* get_cell_value returns for every formula cell its computed value and    *)
(* never the unevaluated formula text: no cell is left unevaluated and     *)
(* outside the dirty set.                                                  *)
(***************************************************************************)
FormulaCellsEvaluatedAfterOk ==
    (last.op = "set_cell_value" /\ last.result = "Ok") =>
        \A c \in FormulaCells(Workbook) :
            \/ c \in dirty_cells
            \/ /\ sheets[c[1]][c[2]].calculated_value # None
               /\ GetCellValue(Workbook, c[1], c[2]).v.t # "Formula"

(***************************************************************************)
(* C24: in the thread-safe facade, with concurrent callers, add_sheet      *)
(* holds the write side of the one readers-writer lock for its whole       *)
(* mutation and export_xlsx the read side for its whole read (import_xlsx  *)
(* mutates under the write side as well); a writer never overlaps another  *)
(* writer or a reader, and a reader never observes a partly updated        *)
(* workbook.                                                               *)
(***************************************************************************)
\* the workbook is between two calls of its methods
Settled == (DOMAIN sheets = {}) = (active_sheet = "")

FacadeLockExclusion ==
    /\ \A t \in Threads : api.pc[t] \in WritePcs <=> t \in api.writers
    /\ \A t \in Threads : api.pc[t] \in ReadPcs <=> t \in api.readers
    /\ Cardinality(api.writers) <= 1
    /\ api.writers # {} => api.readers = {}
    /\ api.writers = {} => Settled
    /\ \A t \in Threads :
           /\ api.pc[t] \in ReadPcs => Settled
           /\ api.pc[t] = "export_sheets" => api.seen[t] = DOMAIN sheets
           /\ api.pc[t] = "import_failed" => t \notin api.writers

\* a thread is inside the mutation of add_sheet, the sheet inserted and not
\* yet active, while another thread waits for the read side
FacadeLockExclusionWitness ==
    \E t, u \in Threads :
        /\ api.pc[t] = "add_sheet_activate"
        /\ ~Settled
        /\ api.pc[u] = "export_lock"

(***************************************************************************)
(* C27: every set_cell_value call terminates on any finite workbook: the   *)
(* cycle check, the traversal of the transitive dependents and the         *)
(* recalculation pass each finish, also on diamond-shaped graphs, and the  *)
(* driver runs to completion before control returns, leaving the dirty set *)
(* empty.                                                                  *)
(***************************************************************************)
\* the call is inside one of its loops
Running == run.phase \in {"check", "mark", "take", "recalc"}

\* what the loops have computed is what the functions return
LoopsCompute ==
    /\ run.phase \in {"mark", "take", "recalc"} => ~CheckCircularReference(run.g, run.key)
    /\ (run.phase = "done" /\ run.returned = "CircularReference") =>
           CheckCircularReference(run.g, run.key)
    /\ run.phase \in {"take", "recalc"} => run.result = GetDependents(run.g, run.key)
    /\ run.phase = "done" =>
           /\ run.dirty = {}
           /\ run.taken = {}
           /\ run.returned \in {"Ok", "CircularReference", "EvaluationError"}

SetCellValueTerminates == [](LoopsCompute) /\ (Running ~> run.phase = "done")

\* a call on the diamond has returned Ok: the cell of row 3 is reached from
\* row 0 by two paths of precedents and row 0 from row 3 by two paths of
\* dependents
SetCellValueTerminatesWitness ==
    /\ run.phase = "done"
    /\ run.returned = "Ok"
    /\ run.dirty = {}
    /\ run.key = Key("S", <<3, 0>>)
    /\ run.g = BuildGraph({<<0, 1>>, <<0, 2>>, <<1, 3>>, <<2, 3>>})
    /\ run.result = {Key("S", <<r, 0>>) : r \in 0..2}

====
